---- MODULE Spec2Model ----
(***************************************************************************)
(* Model of the group directory client (src/apiAnfragen.js) and of the     *)
(* message composer in its two variants: src/script.js, which posts the    *)
(* message to the push-notification endpoint, and src/unnamed/part_000,    *)
(* which downloads it as a file.                                           *)
(*                                                                         *)
(* Every HTML page loads its own copy of the scripts, so each page is a    *)
(* specification of its own over the same variables: Spec is the delete    *)
(* page, SpecAdd the page that creates groups, SpecMsg the message page.   *)
(* SpecLive is the delete page under the event loop's fairness; SpecFilter, *)
(* SpecArt, SpecYear and SpecRace put single functions of the pages under  *)
(* a range of inputs: the group filter, the type derived on create, the    *)
(* year extraction, and overlapping calls of ladeGruppen.                  *)
(*                                                                         *)
(* The browser is single threaded: every action below is one event-loop    *)
(* task, i.e. one handler or one promise continuation run to its next      *)
(* await.  Strings that the code inspects character by character are       *)
(* sequences of one-character strings.  The loop index i of                *)
(* deleteGroupsSequentially is 1-based here (0-based in the code).         *)
(***************************************************************************)
EXTENDS Integers, Sequences, FiniteSets, TLC

VARIABLES
    isDeletingInProgress,        \* apiAnfragen.js:59
    allGroups,                   \* Global.allGroups, apiAnfragen.js:53
    groupChoicesLoeschenInstance,\* window.groupChoicesLoeschenInstance exists
    loeschenChoices,             \* choices held by the delete dropdown widget
    selection,                   \* values selected in #group-select-loeschen
    batches,                     \* invocations of deleteGroupsSequentially:
                                 \* those suspended, and those that ended
                                 \* since the last one started
    pendingGets,                 \* GET /groups requests in flight
    refreshTimers,               \* pending setTimeout(ladeGruppen, 500)
    allYears,                    \* script.js global allYears
    yearOptions,                 \* options of #year-select
    ev,                          \* history: which call made while the flag
                                 \* was set the last step was, if it was one
                                 \* (delete page); the handler that ran last
                                 \* (other pages)
    variant,                     \* "push": script.js, "file": part_000
    message,                     \* value of #message
    selectedYears,               \* values selected in #year-select
    selectedTypes,               \* values selected in #stud-select
    sendToAll,                   \* #sendToAll is checked
    studVisible,                 \* .stud-select-container is shown
    groupVisible,                \* .group-select-container is shown
    groupChoicesInstance,        \* window.groupChoicesInstance exists
    groupChoices,                \* choices held by the #group-select widget
    groupSelection,              \* values selected in #group-select
    sent,                        \* the message the last step handed to the
                                 \* sink, NoMessage if it handed none
    resetTimers,                 \* pending reset timers of buildJson
    alertShown,                  \* the alert the last step showed, "" if none
    inputName,                   \* value of the .add-group input
    posts,                       \* bodies of the POST /groups in flight
    lastData,                    \* history: the GET result processed last
                                 \* and the cache it met
    filterRuns,                  \* history: the results of the runs of the
                                 \* filter on the page's cache and filter
                                 \* state, oldest first
    refreshes                    \* history: the GET /groups in flight that
                                 \* are older than the one issued last, and
                                 \* where that one stands

(* The widgets of the message page that ladeGruppen refreshes. *)
cacheVars == <<allGroups, loeschenChoices, groupChoices, allYears, yearOptions>>

(* The delete page. *)
deleteVars == <<isDeletingInProgress, groupChoicesLoeschenInstance, selection,
                batches, refreshTimers>>

(* The message page. *)
msgVars == <<variant, message, selectedYears, selectedTypes, sendToAll,
             studVisible, groupVisible, groupChoicesInstance, groupSelection,
             sent, resetTimers>>

(* The page that creates groups. *)
addVars == <<inputName, posts>>

(* History kept by the specifications of the filter and of overlapping
   refreshes. *)
histVars == <<filterRuns, refreshes>>

vars == <<cacheVars, deleteVars, msgVars, addVars, pendingGets, ev,
          alertShown, lastData, histVars>>

----------------------------------------------------------------------------
(* Bounds of the model *)

MaxSel == 2

MaxActive == 2

MaxGets == 1

MaxTimers == 1

MaxPosts == 1

MaxResets == 1

MaxRuns == 2

MaxNameLen == 2

MaxYearLen == 5

MaxOverlap == 3

MaxGroups == 7

----------------------------------------------------------------------------
(* Characters and strings *)

UpperCase == {"A","B","C","D","E","F","G","H","I","J","K","L","M",
              "N","O","P","Q","R","S","T","U","V","W","X","Y","Z"}

Digits == {"0","1","2","3","4","5","6","7","8","9"}

DigitVal(c) ==
    CASE c = "0" -> 0 [] c = "1" -> 1 [] c = "2" -> 2 [] c = "3" -> 3
      [] c = "4" -> 4 [] c = "5" -> 5 [] c = "6" -> 6 [] c = "7" -> 7
      [] c = "8" -> 8 [] c = "9" -> 9

(* The backend's groups, as GET /groups may list them. *)
G1 == [id |-> <<"1">>, name |-> <<"D","I","2","4","/","0","1">>, art |-> 1]

G2 == [id |-> <<"2">>, name |-> <<"D","S","2","4","/","0","7">>, art |-> 2]

G3 == [id |-> <<"x">>, name |-> <<"F","S","2","3","/","4","2">>, art |-> 2]

GroupLists == { <<G1, G2>>, <<G2, G3>> }

(* A group that GET /groups lists without an art field; 0 stands for the
   missing field. *)
G4 == [id |-> <<"4">>, name |-> <<"E","S","2","4","/","0","3">>, art |-> 0]

(* The lists that the filter is run on. *)
FilterLists == GroupLists \cup { <<G1, G4>>, <<G4, G3>> }

(* Option values of the plain <select> when no widget instance exists. *)
StaticOptionValues == { G1.id, G2.id, G3.id }

----------------------------------------------------------------------------
(* parseInt: the longest prefix of decimal digits, NaN when it is empty. *)

RECURSIVE DigitPrefixLen(_)
DigitPrefixLen(s) ==
    IF s = <<>> \/ Head(s) \notin Digits THEN 0
    ELSE 1 + DigitPrefixLen(Tail(s))

RECURSIVE DecimalValue(_)
DecimalValue(s) ==
    IF s = <<>> THEN 0
    ELSE 10 * DecimalValue(SubSeq(s, 1, Len(s) - 1)) + DigitVal(s[Len(s)])

parseInt(s) ==
    LET n == DigitPrefixLen(s) IN
    IF n = 0 THEN [isNaN |-> TRUE, n |-> 0]
    ELSE [isNaN |-> FALSE, n |-> DecimalValue(SubSeq(s, 1, n))]

----------------------------------------------------------------------------
(* script.js: year facets *)

(* Variant of the pattern with exactly two letters and a serial of two
   digits. *)
YearMatchAt_TwoLetters(name, s, k) ==
    /\ k = 2
    /\ s + k + 4 <= Len(name)
    /\ \A j \in s .. s + k - 1 : name[j] \in UpperCase
    /\ name[s + k] \in Digits
    /\ name[s + k + 1] \in Digits
    /\ name[s + k + 2] = "/"
    /\ name[s + k + 3] \in Digits
    /\ name[s + k + 4] \in Digits

(* /[A-Z]+(\d{2})\/\d+/ matched with the letters starting at s and being k
   characters long. *)
YearMatchAt(name, s, k) ==
    /\ s + k + 3 <= Len(name)
    /\ \A j \in s .. s + k - 1 : name[j] \in UpperCase
    /\ name[s + k] \in Digits
    /\ name[s + k + 1] \in Digits
    /\ name[s + k + 2] = "/"
    /\ name[s + k + 3] \in Digits

(* match[1] of the leftmost match, <<>> for null. *)
extractYearFromGroupName(name) ==
    LET starts == { s \in 1 .. Len(name) :
                      \E k \in 1 .. Len(name) : YearMatchAt(name, s, k) }
    IN  IF starts = {} THEN <<>>
        ELSE LET s == CHOOSE x \in starts : \A y \in starts : x <= y
                 k == CHOOSE x \in 1 .. Len(name) : YearMatchAt(name, s, x)
             IN  <<name[s + k], name[s + k + 1]>>

(* The duplicate test of getAllYears looks at the first five entries only. *)
DupScanLen == 5

RECURSIVE CollectYears(_, _)
CollectYears(groups, years) ==
    IF groups = <<>> THEN years
    ELSE LET year == extractYearFromGroupName(Head(groups).label)
             isin == \E i \in 1 .. DupScanLen :
                        i <= Len(years) /\ years[i] = year
         IN  CollectYears(Tail(groups),
                          IF year # <<>> /\ ~isin THEN Append(years, year)
                          ELSE years)

getAllYears(groups) == CollectYears(groups, <<>>)

(* String comparison of two year strings (code units of digits). *)
YearLeq(a, b) ==
    \/ DigitVal(a[1]) < DigitVal(b[1])
    \/ DigitVal(a[1]) = DigitVal(b[1]) /\ DigitVal(a[2]) <= DigitVal(b[2])

RECURSIVE SetToSeq(_)
SetToSeq(S) ==
    IF S = {} THEN <<>>
    ELSE LET x == CHOOSE y \in S : TRUE IN <<x>> \o SetToSeq(S \ {x})

(* Variant of jahrgangAktualisieren that builds the options from the list as
   it is given. *)
jahrgangAktualisieren_AsGiven(years) == years

(* [...new Set(allYears)].sort() *)
jahrgangAktualisieren(years) ==
    SortSeq(SetToSeq({ years[i] : i \in 1 .. Len(years) }),
            LAMBDA a, b : YearLeq(a, b) /\ a # b)

----------------------------------------------------------------------------
(* apiAnfragen.js: ladeGruppen *)

(* data.groups.map(group => ({value, label, art})) *)
ToChoice(group) == [value |-> group.id, label |-> group.name, art |-> group.art]

ToChoices(groups) == [i \in 1 .. Len(groups) |-> ToChoice(groups[i])]

(* What the GET /groups exchange can end in: a body {success: true, groups},
   a body without success or without groups, or a rejected promise (network
   error, body that is not JSON). *)
GetResponses ==
    [kind : {"ok"}, groups : GroupLists]
      \cup { [kind |-> "appError", groups |-> <<>>],
             [kind |-> "reject", groups |-> <<>>] }

(* Variant of ladeGruppen without the busy-flag guard of lines 72-74. *)
ladeGruppen_NoGuard == pendingGets' = pendingGets + 1

(* The call itself, up to the fetch. *)
ladeGruppen ==
    IF isDeletingInProgress
    THEN pendingGets' = pendingGets
    ELSE pendingGets' = pendingGets + 1

(* Variant of ladeGruppenThen that adds the loaded groups to the cache
   instead of replacing it. *)
ladeGruppenThen_Appends(data) ==
    IF data.kind = "ok"
    THEN LET choicesArray == ToChoices(data.groups) IN
         /\ allGroups' = allGroups \o choicesArray
         /\ UNCHANGED <<loeschenChoices, groupChoices, allYears, yearOptions>>
    ELSE UNCHANGED cacheVars

(* Variant of ladeGruppenThen without the flag tests of lines 100 and 110. *)
ladeGruppenThen_NoFlagTest(data) ==
    IF data.kind = "ok"
    THEN LET choicesArray == ToChoices(data.groups) IN
         /\ allGroups' = choicesArray
         /\ groupChoices' =
               IF groupChoicesInstance THEN choicesArray ELSE groupChoices
         /\ loeschenChoices' =
               IF groupChoicesLoeschenInstance
               THEN choicesArray ELSE loeschenChoices
         /\ allYears' = getAllYears(choicesArray)
         /\ yearOptions' = jahrgangAktualisieren(getAllYears(choicesArray))
    ELSE UNCHANGED cacheVars

(* The .then((data) => ...) continuation and the .catch. *)
ladeGruppenThen(data) ==
    IF data.kind = "ok"
    THEN LET choicesArray == ToChoices(data.groups) IN
         /\ allGroups' = choicesArray
         /\ groupChoices' =
               IF groupChoicesInstance THEN choicesArray ELSE groupChoices
         /\ loeschenChoices' =
               IF groupChoicesLoeschenInstance /\ ~isDeletingInProgress
               THEN choicesArray ELSE loeschenChoices
         /\ IF ~isDeletingInProgress
            THEN /\ allYears' = getAllYears(choicesArray)
                 /\ yearOptions' = jahrgangAktualisieren(getAllYears(choicesArray))
            ELSE UNCHANGED <<allYears, yearOptions>>
    ELSE UNCHANGED cacheVars

----------------------------------------------------------------------------
(* apiAnfragen.js: hinzufuegen *)

LowerLetters == <<"a","b","c","d","e","f","g","h","i","j","k","l","m",
                  "n","o","p","q","r","s","t","u","v","w","x","y","z">>

UpperLetters == <<"A","B","C","D","E","F","G","H","I","J","K","L","M",
                  "N","O","P","Q","R","S","T","U","V","W","X","Y","Z">>

(* The character U+017F (LATIN SMALL LETTER LONG S), written by its code
   point. *)
LongS == "U+017F"

(* String.prototype.toUpperCase on one character: the letters a to z, and
   the long s, whose uppercase mapping is S. *)
toUpperCase(c) ==
    IF \E i \in 1 .. Len(LowerLetters) : LowerLetters[i] = c
    THEN UpperLetters[CHOOSE i \in 1 .. Len(LowerLetters) : LowerLetters[i] = c]
    ELSE IF c = LongS THEN "S" ELSE c

(* Variant of extractArtFromGroupName that compares without toUpperCase. *)
extractArtFromGroupName_CaseSensitive(groupName) ==
    IF Len(groupName) >= 2
    THEN IF groupName[2] = "S" THEN 2 ELSE 1
    ELSE 1

extractArtFromGroupName(groupName) ==
    IF Len(groupName) >= 2
    THEN IF toUpperCase(groupName[2]) = "S" THEN 2 ELSE 1
    ELSE 1

(* What the user may have typed into the .add-group input. *)
InputNames ==
    { <<>>, <<"D","I","2","4","/","0","1">>, <<"F","s","2","3","/","4","2">>,
      <<"x">> }

(* Characters of the names that the type is derived from. *)
ArtAlphabet == {"D", "I", "S", "s", LongS}

(* All names over the alphabet up to the bound, and the names of the
   examples. *)
ArtNames ==
    UNION { [1 .. n -> ArtAlphabet] : n \in 0 .. MaxNameLen }
      \cup InputNames \cup { <<"D","S","2","4","/","0","7">> }

(* How the POST /groups exchange can end: a body with success true, a body
   with success false, or a rejected promise (network error, body that is
   not JSON). *)
PostOutcomes == {"success", "appError", "reject"}

AlertEmptyName == "Bitte gib einen Gruppennamen ein."

AlertAdded == "Gruppe erfolgreich hinzugefuegt"

AlertAddFailed == "Fehler beim Hinzufuegen der Gruppe"

AlertAddNetwork == "Netzwerkfehler beim Hinzufuegen der Gruppe"

(* Variant of hinzufuegen without the test of line 173. *)
hinzufuegen_NoGuard ==
    /\ posts' = Append(posts, [name |-> inputName,
                                art |-> extractArtFromGroupName(inputName)])
    /\ alertShown' = ""

(* The call itself, up to the fetch. *)
hinzufuegen ==
    LET gruppenname == inputName IN
    IF gruppenname # <<>>
    THEN /\ posts' = Append(posts, [name |-> gruppenname,
                                     art |-> extractArtFromGroupName(gruppenname)])
         /\ alertShown' = ""
    ELSE /\ alertShown' = AlertEmptyName
         /\ UNCHANGED posts

(* Variant of hinzufuegenThen that reloads the groups whatever the backend
   answered. *)
hinzufuegenThen_AlwaysReloads(outcome) ==
    /\ alertShown' = (CASE outcome = "success" -> AlertAdded
                         [] outcome = "appError" -> AlertAddFailed
                         [] outcome = "reject" -> AlertAddNetwork)
    /\ inputName' = IF outcome = "success" THEN <<>> ELSE inputName
    /\ ladeGruppen

(* The .then((data) => ...) continuation and the .catch of the POST. *)
hinzufuegenThen(outcome) ==
    CASE outcome = "success" ->
           /\ alertShown' = AlertAdded
           /\ inputName' = <<>>
           /\ ladeGruppen
      [] outcome = "appError" ->
           /\ alertShown' = AlertAddFailed
           /\ UNCHANGED <<inputName, pendingGets>>
      [] outcome = "reject" ->
           /\ alertShown' = AlertAddNetwork
           /\ UNCHANGED <<inputName, pendingGets>>

----------------------------------------------------------------------------
(* apiAnfragen.js: deleteGroupsSequentially *)

(* How one DELETE request can end: a response with or without ok status, or
   a rejection whose value carries a message containing "Failed to fetch",
   carries another message, or has no message property usable as a string
   (undefined, null, a string, an object without message). *)
DeleteOutcomes ==
    {"ok", "notOk", "rejFailedToFetch", "rejOtherMessage", "rejNoMessage"}

(* One invocation of the async function.  pc is where it is suspended:
   "await1" on the first fetch, "delay" on the 100 ms timer, "await2" on the
   retry fetch; "done" when its promise resolved, "thrown" when it rejected.
   requests, first, second and outcome are the history of each position of
   groupsToDelete: the DELETE requests sent for it, how the first attempt and
   the retry ended, and how it was counted. *)
NewBatch(groupsToDelete) ==
    [groupsToDelete   |-> groupsToDelete,
     i                |-> 1,
     successCount     |-> 0,
     errorCount       |-> 0,
     pc               |-> "loop",
     requests         |-> [j \in 1 .. Len(groupsToDelete) |-> 0],
     first            |-> [j \in 1 .. Len(groupsToDelete) |-> "none"],
     second           |-> [j \in 1 .. Len(groupsToDelete) |-> "none"],
     outcome          |-> [j \in 1 .. Len(groupsToDelete) |-> "none"],
     refreshScheduled |-> FALSE,
     notice           |-> FALSE]

Succeeded(b) ==
    [b EXCEPT !.successCount = @ + 1, !.outcome[b.i] = "succeeded", !.i = @ + 1,
              !.pc = "loop"]

Failed(b) ==
    [b EXCEPT !.errorCount = @ + 1, !.outcome[b.i] = "failed", !.i = @ + 1,
              !.pc = "loop"]

(* Variant of RunLoop that sends the DELETE of every remaining id without
   awaiting the one before (the body of a forEach(async ...)). *)
RECURSIVE RunLoop_NoAwait(_)
RunLoop_NoAwait(b) ==
    IF b.i > Len(b.groupsToDelete) THEN [b EXCEPT !.pc = "done"]
    ELSE IF parseInt(b.groupsToDelete[b.i]).isNaN
    THEN RunLoop_NoAwait([b EXCEPT !.errorCount = @ + 1,
                                   !.outcome[b.i] = "failed", !.i = @ + 1])
    ELSE [b EXCEPT !.pc = "await1",
                   !.requests = [j \in DOMAIN @ |->
                                   IF j >= b.i THEN @[j] + 1 ELSE @[j]]]

(* The for loop from position b.i up to its next await or its end. *)
RECURSIVE RunLoop(_)
RunLoop(b) ==
    IF b.i > Len(b.groupsToDelete) THEN [b EXCEPT !.pc = "done"]
    ELSE IF parseInt(b.groupsToDelete[b.i]).isNaN THEN RunLoop(Failed(b))
    ELSE [b EXCEPT !.pc = "await1", !.requests[b.i] = @ + 1]

(* Continuation of the first await. *)
AfterFirstAttempt(b0, outcome) ==
    LET b == [b0 EXCEPT !.first[b0.i] = outcome] IN
    CASE outcome = "ok"               -> RunLoop(Succeeded(b))
      [] outcome = "notOk"            -> RunLoop(Failed(b))
      [] outcome = "rejFailedToFetch" -> [b EXCEPT !.pc = "delay"]
      [] outcome = "rejOtherMessage"  -> RunLoop(Failed(b))
      [] outcome = "rejNoMessage"     -> [b EXCEPT !.pc = "thrown"]

(* The retry fetch, issued when the 100 ms timer fires. *)
IssueRetry(b) == [b EXCEPT !.pc = "await2", !.requests[b.i] = @ + 1]

(* Variant of AfterRetry that does not test retryResponse.ok. *)
AfterRetry_IgnoresStatus(b0, outcome) ==
    LET b == [b0 EXCEPT !.second[b0.i] = outcome] IN
    IF outcome \in {"ok", "notOk"} THEN RunLoop(Succeeded(b))
    ELSE RunLoop(Failed(b))

(* Continuation of the retry's await. *)
AfterRetry(b0, outcome) ==
    LET b == [b0 EXCEPT !.second[b0.i] = outcome] IN
    IF outcome = "ok" THEN RunLoop(Succeeded(b)) ELSE RunLoop(Failed(b))

Running(b) == b.pc \notin {"done", "thrown"}

(* The loop has ended and successCount > 0 (line 358). *)
EndedWithSuccess(b) == b.pc = "done" /\ b.successCount > 0

SetBatch(bs, k, b) ==
    IF k = Len(bs) + 1 THEN Append(bs, b) ELSE [bs EXCEPT ![k] = b]

(* Stores invocation k of bs after it ran up to b; when the loop has ended
   this is lines 354-374: the flag, the widget's selection, the refresh timer
   and the notice.  flagNow is the flag as the running handler last set it. *)
Settle(bs, k, b, flagNow) ==
    IF b.pc = "done"
    THEN LET refresh == groupChoicesLoeschenInstance /\ b.successCount > 0 IN
         /\ isDeletingInProgress' = FALSE
         /\ selection' = IF refresh THEN <<>> ELSE selection
         /\ refreshTimers' = IF refresh THEN refreshTimers + 1 ELSE refreshTimers
         /\ batches' = SetBatch(bs, k, [b EXCEPT !.refreshScheduled = refresh,
                                                 !.notice = b.errorCount > 0])
    ELSE /\ isDeletingInProgress' = flagNow
         /\ batches' = SetBatch(bs, k, b)
         /\ UNCHANGED <<selection, refreshTimers>>

----------------------------------------------------------------------------
(* apiAnfragen.js: loeschen *)

(* Variant of loeschen without the guard of lines 241-243. *)
loeschen_NoGuard ==
    IF Len(selection) = 0
    THEN /\ isDeletingInProgress' = FALSE
         /\ UNCHANGED <<selection, batches, refreshTimers>>
    ELSE LET bs == SelectSeq(batches, Running) IN
         Settle(bs, Len(bs) + 1, RunLoop(NewBatch(selection)), TRUE)

(* Variant of loeschen that sets the flag only after the batch (line 246
   missing): the flag keeps the value it had. *)
loeschen_FlagNotSet ==
    IF isDeletingInProgress \/ Len(selection) = 0
    THEN UNCHANGED <<isDeletingInProgress, selection, batches, refreshTimers>>
    ELSE LET bs == SelectSeq(batches, Running) IN
         Settle(bs, Len(bs) + 1, RunLoop(NewBatch(selection)), FALSE)

loeschen ==
    IF isDeletingInProgress
    THEN UNCHANGED <<isDeletingInProgress, selection, batches, refreshTimers>>
    ELSE IF Len(selection) = 0
    THEN UNCHANGED <<isDeletingInProgress, selection, batches, refreshTimers>>
    ELSE LET bs == SelectSeq(batches, Running) IN
         Settle(bs, Len(bs) + 1, RunLoop(NewBatch(selection)), TRUE)

(* script.js: handleEnterOnPage("Loeschen.html") *)
handleEnterOnPage ==
    IF isDeletingInProgress
    THEN UNCHANGED <<isDeletingInProgress, selection, batches, refreshTimers>>
    ELSE loeschen

----------------------------------------------------------------------------
(* script.js and part_000: the message composer *)

(* Option values of #stud-select. *)
StudTypes == {"studenten", "auszubildende"}

(* What the user may have typed into #message. *)
Texts == {"", "hi"}

(* No message: what senden never hands to the sink. *)
NoMessage == [message |-> "", groups |-> <<>>]

AlertMissing == "fehlende Angaben"

AlertSent == "Nachricht erfolgreich gesendet!"

(* selectedStudTypes.map(...) of script.js:62-66. *)
dbArtValues(selectedStudTypes) ==
    { IF studType = "studenten" THEN "1"
      ELSE IF studType = "auszubildende" THEN "2"
      ELSE studType : studType \in selectedStudTypes }

(* group.art ? group.art.toString() : "1"; an absent art is 0 here. *)
groupArt(group) ==
    IF group.art = 0 THEN "1"
    ELSE IF group.art = 1 THEN "1"
    ELSE "2"

(* The filter callback of script.js: it stands three times in the file, in
   senden, in groupSelectAnzeigen and in the change handler of #sendToAll. *)
FilterTest(group, selectedYears_, selectedStudTypes) ==
    LET yearMatch ==
            IF selectedYears_ # {}
            THEN extractYearFromGroupName(group.label) \in selectedYears_
            ELSE TRUE
        typeMatch ==
            IF selectedStudTypes # {}
            THEN groupArt(group) \in dbArtValues(selectedStudTypes)
            ELSE TRUE
    IN  yearMatch /\ typeMatch

(* Variant of FilterGroups that narrows the choices the group widget holds
   instead of filtering the given list. *)
FilterGroups_Incremental(groups, selectedYears_, selectedStudTypes) ==
    SelectSeq(IF groupChoices # <<>> THEN groupChoices ELSE groups,
              LAMBDA g : FilterTest(g, selectedYears_, selectedStudTypes))

FilterGroups(groups, selectedYears_, selectedStudTypes) ==
    IF selectedYears_ # {} \/ selectedStudTypes # {}
    THEN SelectSeq(groups,
                   LAMBDA g : FilterTest(g, selectedYears_, selectedStudTypes))
    ELSE groups

(* The filter of groupSelectAnzeigen in part_000: the year only. *)
FilterByYear(groups, selectedYears_) ==
    IF selectedYears_ # {}
    THEN SelectSeq(groups,
                   LAMBDA g : extractYearFromGroupName(g.label) \in selectedYears_)
    ELSE groups

Labels(groups) == [i \in 1 .. Len(groups) |-> groups[i].label]

Values(groups) == [i \in 1 .. Len(groups) |-> groups[i].value]

(* selectedGroupIds.map(id => { find ...; return group ? group.label : id }) *)
ResolveNames(ids) ==
    [i \in 1 .. Len(ids) |->
        IF \E k \in 1 .. Len(allGroups) : allGroups[k].value = ids[i]
        THEN allGroups[CHOOSE k \in 1 .. Len(allGroups) :
                          /\ allGroups[k].value = ids[i]
                          /\ \A m \in 1 .. k - 1 : allGroups[m].value # ids[i]].label
        ELSE ids[i]]

(* selectedGroupNames of senden.  Without a widget instance groupSelection
   is the selection of the plain <select>. *)
selectedGroupNames ==
    IF variant = "push"
    THEN IF sendToAll
         THEN Labels(FilterGroups(allGroups, selectedYears, selectedTypes))
         ELSE ResolveNames(groupSelection)
    ELSE IF groupChoicesInstance
         THEN ResolveNames(groupSelection)
         ELSE IF sendToAll
              THEN Labels(allGroups)
              ELSE ResolveNames(groupSelection)

(* buildJson, up to the setTimeout. *)
buildJson(myObject) ==
    /\ sent' = myObject
    /\ alertShown' = AlertSent
    /\ resetTimers' = resetTimers + 1

(* Variant of senden without the validation. *)
senden_NoValidation ==
    buildJson([message |-> message, groups |-> selectedGroupNames])

(* Variant of senden that reads the group selection although #sendToAll is
   checked. *)
senden_ReadsSelection ==
    IF Len(groupSelection) = 0 \/ message = ""
    THEN /\ alertShown' = AlertMissing
         /\ sent' = NoMessage
         /\ UNCHANGED resetTimers
    ELSE buildJson([message |-> message,
                    groups |-> ResolveNames(groupSelection)])

senden ==
    IF Len(selectedGroupNames) = 0 \/ message = ""
    THEN /\ alertShown' = AlertMissing
         /\ sent' = NoMessage
         /\ UNCHANGED resetTimers
    ELSE buildJson([message |-> message, groups |-> selectedGroupNames])

(* The callback of buildJson's setTimeout. *)
buildJsonTimeout ==
    /\ message' = ""
    /\ groupSelection' = IF groupChoicesInstance THEN <<>> ELSE groupSelection
    /\ sendToAll' = FALSE
    /\ ladeGruppen

(* Variant of checkAuswahlYear that leaves the type filter as it is. *)
checkAuswahlYear_KeepsStud(years) ==
    /\ studVisible' = studVisible
    /\ groupVisible' = IF years # {} /\ variant = "push" THEN groupVisible
                       ELSE FALSE

(* checkAuswahlYear with years selected in #year-select: studSelectAnzeigen,
   studSelectVerstecken and groupSelectVerstecken set the two regions. *)
checkAuswahlYear(years) ==
    IF years # {}
    THEN /\ studVisible' = TRUE
         /\ groupVisible' = IF variant = "push" THEN groupVisible ELSE FALSE
    ELSE /\ studVisible' = FALSE
         /\ groupVisible' = FALSE

(* handleStudChange with types selected in #stud-select, together with the
   groupSelectAnzeigen it calls: script.js passes no years, part_000 passes
   the years and no types.  clearStore empties choices and selection. *)
handleStudChange(types) ==
    IF types # {}
    THEN LET filteredGroups ==
                 IF variant = "push"
                 THEN FilterGroups(allGroups, {}, types)
                 ELSE FilterByYear(allGroups, selectedYears)
         IN  /\ groupVisible' = TRUE
             /\ groupChoicesInstance' = TRUE
             /\ IF Len(filteredGroups) > 0
                THEN /\ groupChoices' = filteredGroups
                     /\ groupSelection' = <<>>
                ELSE UNCHANGED <<groupChoices, groupSelection>>
    ELSE /\ groupVisible' = FALSE
         /\ IF variant = "push" /\ groupChoicesInstance
            THEN /\ groupChoices' = <<>>
                 /\ groupSelection' = <<>>
            ELSE UNCHANGED <<groupChoices, groupSelection>>
         /\ UNCHANGED groupChoicesInstance

(* groupSelectAnzeigen of script.js: shows the region, creates the widget
   instance if there is none, and hands it the filtered groups unless there
   are none. *)
groupSelectAnzeigen(years, types) ==
    LET filteredGroups == FilterGroups(allGroups, years, types) IN
    /\ groupVisible' = TRUE
    /\ groupChoicesInstance' = TRUE
    /\ IF Len(filteredGroups) > 0
       THEN /\ groupChoices' = filteredGroups
            /\ groupSelection' = <<>>
       ELSE UNCHANGED <<groupChoices, groupSelection>>

(* setChoiceByValue: selects the choices of the widget that carry one of
   the values. *)
setChoiceByValue(ids) ==
    SelectSeq(ids, LAMBDA id : \E k \in 1 .. Len(groupChoices) :
                                  groupChoices[k].value = id)

(* The change handler of #sendToAll, after the box took the value checked. *)
sendToAllChange(checked) ==
    IF checked
    THEN /\ groupSelection' =
               IF variant = "push"
               THEN IF groupChoicesInstance
                    THEN setChoiceByValue(Values(
                           FilterGroups(allGroups, selectedYears, selectedTypes)))
                    ELSE groupSelection
               ELSE <<>>
         /\ studVisible' = FALSE
         /\ groupVisible' = FALSE
    ELSE /\ checkAuswahlYear(selectedYears)
         /\ UNCHANGED groupSelection

----------------------------------------------------------------------------
(* The state machine *)

(* Script load, lines 53-59 of apiAnfragen.js. *)
CacheEmpty ==
    /\ allGroups = <<>>
    /\ loeschenChoices = <<>>
    /\ groupChoices = <<>>
    /\ allYears = <<>>
    /\ yearOptions = <<>>
    /\ alertShown = ""
    /\ lastData = [kind |-> "none", groups |-> <<>>, before |-> <<>>]

(* No GET /groups is followed. *)
NoRefreshes ==
    [older |-> 0, latest |-> "none", data |-> [kind |-> "none", groups |-> <<>>]]

(* The histories of the filter and of the refreshes are not kept. *)
NoHistory ==
    /\ filterRuns = <<>>
    /\ refreshes = NoRefreshes

(* A page without the message form: its elements do not exist. *)
NoMessagePage ==
    /\ variant = "push"
    /\ message = ""
    /\ selectedYears = {}
    /\ selectedTypes = {}
    /\ sendToAll = FALSE
    /\ studVisible = FALSE
    /\ groupVisible = FALSE
    /\ groupChoicesInstance = FALSE
    /\ groupSelection = <<>>
    /\ sent = NoMessage
    /\ resetTimers = 0

(* A page without the .add-group input. *)
NoAddPage ==
    /\ inputName = <<>>
    /\ posts = <<>>

(* A page on which nothing has been deleted. *)
NoDeletePage ==
    /\ isDeletingInProgress = FALSE
    /\ selection = <<>>
    /\ batches = <<>>
    /\ refreshTimers = 0

(* After both DOMContentLoaded handlers: the page either has the delete
   dropdown widget (and the initial ladeGruppen() was issued), or it has no
   widget instance; then the initial GET was issued unless the handler threw
   at new Choices(...) before reaching ladeGruppen(). *)
Init ==
    /\ CacheEmpty
    /\ NoHistory
    /\ NoDeletePage
    /\ NoMessagePage
    /\ NoAddPage
    /\ groupChoicesLoeschenInstance \in BOOLEAN
    /\ pendingGets \in (IF groupChoicesLoeschenInstance THEN {1} ELSE {0, 1})
    /\ ev = "other"

OptionValues ==
    IF groupChoicesLoeschenInstance
    THEN { loeschenChoices[i].value : i \in 1 .. Len(loeschenChoices) }
    ELSE StaticOptionValues

Selections(values) ==
    { s \in UNION { [1 .. n -> values] : n \in 0 .. MaxSel } :
        \A i, j \in 1 .. Len(s) : i # j => s[i] # s[j] }

(* The user changes the selection of the delete dropdown. *)
UserSelects ==
    \E s \in Selections(OptionValues) :
        /\ s # selection
        /\ selection' = s
        /\ ev' = "other"
        /\ UNCHANGED <<isDeletingInProgress, groupChoicesLoeschenInstance,
                       batches, pendingGets, refreshTimers>>
        /\ UNCHANGED <<cacheVars, msgVars, addVars, alertShown, lastData, histVars>>

(* Any caller of ladeGruppen() other than the delete batch's timer. *)
CallLadeGruppenAs(issued) ==
    /\ isDeletingInProgress \/ pendingGets < MaxGets
    /\ ladeGruppen
    /\ ev' = IF isDeletingInProgress THEN "ladeGruppenBusy" ELSE issued
    /\ UNCHANGED <<cacheVars, deleteVars, msgVars, addVars, alertShown,
                   lastData, histVars>>

CallLadeGruppen == CallLadeGruppenAs("other")

(* A GET /groups exchange ends with data. *)
GetResponseWith(data) ==
    /\ pendingGets > 0
    /\ pendingGets' = pendingGets - 1
    /\ ladeGruppenThen(data)
    /\ UNCHANGED <<deleteVars, addVars, variant, message, selectedYears,
                   selectedTypes, sendToAll, studVisible, groupVisible,
                   groupChoicesInstance, groupSelection, resetTimers>>

GetResponse ==
    \E data \in GetResponses :
        /\ GetResponseWith(data)
        /\ ev' = "other"
        /\ UNCHANGED <<sent, alertShown, lastData, histVars>>

(* Bounds on what a new batch may add to the state. *)
CanStart ==
    /\ Len(SelectSeq(batches, Running)) < MaxActive
    /\ refreshTimers < MaxTimers

(* Bound on the refresh timers that the end of a batch may add to the
   state. *)
CanSettle(b) ==
    (EndedWithSuccess(b) /\ groupChoicesLoeschenInstance)
        => refreshTimers < MaxTimers

(* The delete button. *)
ClickLoeschen ==
    /\ isDeletingInProgress \/ selection = <<>> \/ CanStart
    /\ loeschen
    /\ ev' = IF isDeletingInProgress THEN "loeschenBusy" ELSE "other"
    /\ UNCHANGED <<groupChoicesLoeschenInstance, pendingGets>>
    /\ UNCHANGED <<cacheVars, msgVars, addVars, alertShown, lastData, histVars>>

(* The Enter key on Loeschen.html. *)
PressEnter ==
    /\ isDeletingInProgress \/ selection = <<>> \/ CanStart
    /\ handleEnterOnPage
    /\ ev' = IF isDeletingInProgress THEN "enterBusy" ELSE "other"
    /\ UNCHANGED <<groupChoicesLoeschenInstance, pendingGets>>
    /\ UNCHANGED <<cacheVars, msgVars, addVars, alertShown, lastData, histVars>>

(* The first DELETE of the current id ends; ended is what the step is seen
   as when it ends the batch with successCount > 0. *)
DeleteResponseAs(ended) ==
    \E k \in 1 .. Len(batches), outcome \in DeleteOutcomes :
        /\ batches[k].pc = "await1"
        /\ CanSettle(AfterFirstAttempt(batches[k], outcome))
        /\ Settle(batches, k, AfterFirstAttempt(batches[k], outcome), isDeletingInProgress)
        /\ ev' = IF EndedWithSuccess(AfterFirstAttempt(batches[k], outcome))
                 THEN ended ELSE "other"
        /\ UNCHANGED <<groupChoicesLoeschenInstance, pendingGets>>
        /\ UNCHANGED <<cacheVars, msgVars, addVars, alertShown, lastData, histVars>>

DeleteResponse == DeleteResponseAs("other")

(* setTimeout(resolve, 100) fires and the retry is sent. *)
RetryDelayElapsed ==
    \E k \in 1 .. Len(batches) :
        /\ batches[k].pc = "delay"
        /\ Settle(batches, k, IssueRetry(batches[k]), isDeletingInProgress)
        /\ ev' = "other"
        /\ UNCHANGED <<groupChoicesLoeschenInstance, pendingGets>>
        /\ UNCHANGED <<cacheVars, msgVars, addVars, alertShown, lastData, histVars>>

(* The retry DELETE ends. *)
RetryResponseAs(ended) ==
    \E k \in 1 .. Len(batches), outcome \in DeleteOutcomes :
        /\ batches[k].pc = "await2"
        /\ CanSettle(AfterRetry(batches[k], outcome))
        /\ Settle(batches, k, AfterRetry(batches[k], outcome), isDeletingInProgress)
        /\ ev' = IF EndedWithSuccess(AfterRetry(batches[k], outcome))
                 THEN ended ELSE "other"
        /\ UNCHANGED <<groupChoicesLoeschenInstance, pendingGets>>
        /\ UNCHANGED <<cacheVars, msgVars, addVars, alertShown, lastData, histVars>>

RetryResponse == RetryResponseAs("other")

(* setTimeout(() => ladeGruppen(), 500) fires. *)
RefreshTimerFiresAs(issued) ==
    /\ refreshTimers > 0
    /\ isDeletingInProgress \/ pendingGets < MaxGets
    /\ refreshTimers' = refreshTimers - 1
    /\ ladeGruppen
    /\ ev' = IF isDeletingInProgress THEN "ladeGruppenBusy" ELSE issued
    /\ UNCHANGED <<isDeletingInProgress, groupChoicesLoeschenInstance,
                   selection, batches>>
    /\ UNCHANGED <<cacheVars, msgVars, addVars, alertShown, lastData, histVars>>

RefreshTimerFires == RefreshTimerFiresAs("other")

Next ==
    \/ UserSelects
    \/ CallLadeGruppen
    \/ GetResponse
    \/ ClickLoeschen
    \/ PressEnter
    \/ DeleteResponse
    \/ RetryDelayElapsed
    \/ RetryResponse
    \/ RefreshTimerFires

Spec == Init /\ [][Next]_vars

----------------------------------------------------------------------------
(* Loeschen.html with the ends of successful batches and the issued GETs
   observed *)

CallLadeGruppenSeen == CallLadeGruppenAs("ladeGruppen")

DeleteResponseSeen == DeleteResponseAs("batchEndSuccess")

RetryResponseSeen == RetryResponseAs("batchEndSuccess")

RefreshTimerFiresSeen == RefreshTimerFiresAs("ladeGruppen")

(* The delete button, pressed after a batch has ended and before its
   refresh timer has fired. *)
ClickDuringSettleDelay ==
    /\ refreshTimers > 0
    /\ ~isDeletingInProgress
    /\ selection # <<>>
    /\ Len(SelectSeq(batches, Running)) < MaxActive
    /\ loeschen
    /\ ev' = "other"
    /\ UNCHANGED <<groupChoicesLoeschenInstance, pendingGets>>
    /\ UNCHANGED <<cacheVars, msgVars, addVars, alertShown, lastData, histVars>>

NextLive ==
    \/ UserSelects
    \/ CallLadeGruppenSeen
    \/ GetResponse
    \/ ClickLoeschen
    \/ ClickDuringSettleDelay
    \/ PressEnter
    \/ DeleteResponseSeen
    \/ RetryDelayElapsed
    \/ RetryResponseSeen
    \/ RefreshTimerFiresSeen

(* The event loop runs every timer that is due and every continuation of a
   request that has ended; the user and other callers are free to do
   nothing. *)
SpecLive ==
    /\ Init
    /\ [][NextLive]_vars
    /\ WF_vars(GetResponse)
    /\ WF_vars(DeleteResponseSeen)
    /\ WF_vars(RetryDelayElapsed)
    /\ WF_vars(RetryResponseSeen)
    /\ WF_vars(RefreshTimerFiresSeen)

----------------------------------------------------------------------------
(* The page that creates groups (hinzufuegen.html) *)

(* After both DOMContentLoaded handlers: no delete dropdown, the initial GET
   in flight. *)
InitAdd ==
    /\ CacheEmpty
    /\ NoHistory
    /\ NoDeletePage
    /\ NoMessagePage
    /\ NoAddPage
    /\ groupChoicesLoeschenInstance = FALSE
    /\ pendingGets = 1
    /\ ev = "load"

(* The user edits the name. *)
EditName ==
    \E n \in InputNames :
        /\ n # inputName
        /\ inputName' = n
        /\ ev' = "editName"
        /\ alertShown' = ""
        /\ UNCHANGED <<cacheVars, deleteVars, msgVars, posts, pendingGets,
                       lastData, histVars>>

(* The button's onclick, or Enter on hinzufuegen.html (script.js:606-608). *)
CallHinzufuegen ==
    /\ inputName # <<>> => Len(posts) < MaxPosts
    /\ hinzufuegen
    /\ ev' = "hinzufuegen"
    /\ UNCHANGED <<cacheVars, deleteVars, msgVars, inputName, pendingGets,
                   lastData, histVars>>

(* A POST /groups exchange ends. *)
PostResponse ==
    \E k \in 1 .. Len(posts), outcome \in PostOutcomes :
        /\ outcome = "success" => pendingGets < MaxGets
        /\ posts' = SubSeq(posts, 1, k - 1) \o SubSeq(posts, k + 1, Len(posts))
        /\ hinzufuegenThen(outcome)
        /\ ev' = (CASE outcome = "success" -> "postSuccess"
                     [] outcome = "appError" -> "postAppError"
                     [] outcome = "reject" -> "postReject")
        /\ UNCHANGED <<cacheVars, deleteVars, msgVars, lastData, histVars>>

(* A GET /groups exchange ends; the history keeps what it ended with. *)
GetResponseSeen ==
    \E data \in GetResponses :
        /\ GetResponseWith(data)
        /\ ev' = "getResponse"
        /\ alertShown' = ""
        /\ UNCHANGED sent
        /\ lastData' = [kind |-> data.kind, groups |-> data.groups,
                         before |-> allGroups]
        /\ UNCHANGED histVars

NextAdd ==
    \/ EditName
    \/ CallHinzufuegen
    \/ PostResponse
    \/ GetResponseSeen

SpecAdd == InitAdd /\ [][NextAdd]_vars

----------------------------------------------------------------------------
(* Overlapping calls of ladeGruppen *)

(* refreshes follows the GET /groups requests in the order of their issue:
   older counts the requests in flight that were issued before the latest
   one, latest is where the latest one stands, data is what it was answered
   with. *)
Unanswered == [kind |-> "none", groups |-> <<>>]

(* A page after DOMContentLoaded, its first GET /groups in flight: the page
   that creates groups (no widget), the delete page (widget of the delete
   dropdown) or the message page (widget of the group filter). *)
InitRace ==
    /\ CacheEmpty
    /\ NoDeletePage
    /\ NoAddPage
    /\ variant = "push"
    /\ message = ""
    /\ selectedYears = {}
    /\ selectedTypes = {}
    /\ sendToAll = FALSE
    /\ studVisible = FALSE
    /\ groupVisible = FALSE
    /\ groupSelection = <<>>
    /\ sent = NoMessage
    /\ resetTimers = 0
    /\ \E page \in {<<FALSE, FALSE>>, <<TRUE, FALSE>>, <<FALSE, TRUE>>} :
          /\ groupChoicesLoeschenInstance = page[1]
          /\ groupChoicesInstance = page[2]
    /\ filterRuns = <<>>
    /\ refreshes = [older |-> 0, latest |-> "inflight", data |-> Unanswered]
    /\ pendingGets = 1
    /\ ev = "load"

(* ladeGruppen is called while earlier requests may be in flight: after a
   create (line 199), after a submission (script.js:160-179), or by any
   other caller. *)
IssueRefresh ==
    /\ pendingGets < MaxOverlap
    /\ ladeGruppen
    /\ refreshes' = [older  |-> refreshes.older
                                  + (IF refreshes.latest = "inflight" THEN 1 ELSE 0),
                     latest |-> "inflight",
                     data   |-> Unanswered]
    /\ ev' = "ladeGruppen"
    /\ UNCHANGED <<cacheVars, deleteVars, msgVars, addVars, alertShown,
                   lastData, filterRuns>>

(* The latest request is answered. *)
AnswerLatest ==
    \E data \in GetResponses :
        /\ refreshes.latest = "inflight"
        /\ GetResponseWith(data)
        /\ refreshes' = [refreshes EXCEPT !.latest = "done",
                                          !.data = [kind |-> data.kind,
                                                    groups |-> data.groups]]
        /\ ev' = "getResponse"
        /\ UNCHANGED <<sent, alertShown, lastData, filterRuns>>

(* A request issued before the latest one is answered. *)
AnswerOlder ==
    \E data \in GetResponses :
        /\ refreshes.older > 0
        /\ GetResponseWith(data)
        /\ refreshes' = [refreshes EXCEPT !.older = @ - 1]
        /\ ev' = "getResponse"
        /\ UNCHANGED <<sent, alertShown, lastData, filterRuns>>

NextRace ==
    \/ IssueRefresh
    \/ AnswerLatest
    \/ AnswerOlder

SpecRace == InitRace /\ [][NextRace]_vars

----------------------------------------------------------------------------
(* Year extraction from the names that GET /groups delivers *)

(* Characters of the names that the year is extracted from. *)
YearAlphabet == {"D", "d", "2", "4", "/"}

(* All names over the alphabet up to the bound, and names of the examples. *)
YearNames ==
    UNION { [1 .. n -> YearAlphabet] : n \in 0 .. MaxYearLen }
      \cup { <<"D","I","2","4","/","0","1">>, <<"d","i","2","4","/","0","1">>,
             <<"D","I","2","4","0","1">>, <<"D","I","2","4","5","/","0","1">> }

(* A page that has issued its first GET /groups. *)
InitYear == InitAdd

(* A GET /groups exchange ends with one group of some name; the backend
   keeps the name it has delivered. *)
YearResponse ==
    \E name \in (IF allGroups = <<>> THEN YearNames
                  ELSE {allGroups[1].label}) :
        /\ GetResponseWith([kind |-> "ok",
                            groups |-> <<[id |-> <<"1">>, name |-> name,
                                          art |-> 1]>>])
        /\ ev' = "getResponse"
        /\ alertShown' = ""
        /\ UNCHANGED <<sent, lastData, histVars>>

NextYear ==
    \/ CallLadeGruppen
    \/ YearResponse

SpecYear == InitYear /\ [][NextYear]_vars

----------------------------------------------------------------------------
(* Year facets of caches with many groups *)

(* Years in the order in which a group list may first mention them. *)
YearOrders ==
    { << <<"2","4">>, <<"2","3">>, <<"2","6">>, <<"1","9">>, <<"2","5">>,
         <<"2","2">>, <<"2","7">>, <<"2","0">> >> }

(* Ids of the groups of a list, by position. *)
IdChars == <<"1","2","3","4","5","6","7","8","9">>

(* The group at position j of a list, of the x-th year of order; 0 is for a
   group whose name yields no year. *)
YearGroup(order, x, j) ==
    [id   |-> <<IdChars[j]>>,
     name |-> IF x = 0 THEN <<"T","e","s","t">>
              ELSE <<"D","I">> \o order[x] \o <<"/","0","1">>,
     art  |-> 1]

(* The cached choices as the groups that GET /groups listed. *)
CachedGroups ==
    [j \in 1 .. Len(allGroups) |->
       [id   |-> allGroups[j].value,
        name |-> allGroups[j].label,
        art  |-> allGroups[j].art]]

(* The years that the cached groups mention are the first m of order. *)
FollowsOrder(order, m) ==
    /\ m <= Len(order)
    /\ \A j \in 1 .. Len(allGroups) :
          \/ allGroups[j].label = YearGroup(order, 0, j).name
          \/ \E x \in 1 .. m : allGroups[j].label = YearGroup(order, x, j).name
    /\ \A x \in 1 .. m :
          \E j \in 1 .. Len(allGroups) :
              allGroups[j].label = YearGroup(order, x, j).name

(* What GET /groups may list next: the groups it listed before, or those and
   one more group, created in between, up to MaxGroups groups; the new group
   is of a year already mentioned, of the next year of the order, or
   without year. *)
YearLists ==
    LET m == Cardinality({ extractYearFromGroupName(allGroups[j].label) :
                             j \in 1 .. Len(allGroups) } \ { <<>> })
    IN  { CachedGroups } \cup
        { Append(CachedGroups, YearGroup(q[1], q[2], Len(allGroups) + 1)) :
            q \in { r \in YearOrders \X (0 .. m + 1) :
                      /\ Len(allGroups) < MaxGroups
                      /\ FollowsOrder(r[1], m)
                      /\ r[2] <= Len(r[1]) } }

InitYears == InitAdd

(* A GET /groups exchange ends with a list of groups. *)
YearsResponse ==
    \E groups \in YearLists :
        /\ GetResponseWith([kind |-> "ok", groups |-> groups])
        /\ ev' = "getResponse"
        /\ alertShown' = ""
        /\ UNCHANGED <<sent, lastData, histVars>>

NextYears ==
    \/ CallLadeGruppen
    \/ YearsResponse

SpecYears == InitYears /\ [][NextYears]_vars

----------------------------------------------------------------------------
(* hinzufuegen.html with a name typed into the input *)

InitArt ==
    /\ CacheEmpty
    /\ NoHistory
    /\ NoDeletePage
    /\ NoMessagePage
    /\ inputName \in ArtNames
    /\ posts = <<>>
    /\ groupChoicesLoeschenInstance = FALSE
    /\ pendingGets = 1
    /\ ev = "load"

NextArt ==
    \/ CallHinzufuegen
    \/ PostResponse
    \/ GetResponseSeen

SpecArt == InitArt /\ [][NextArt]_vars

----------------------------------------------------------------------------
(* Properties *)

BatchIndex == 1 .. Len(batches)

Positions(b) == 1 .. Len(b.groupsToDelete)

Rejections == {"rejFailedToFetch", "rejOtherMessage", "rejNoMessage"}

(* Position j of invocation b has been sent a DELETE that the loop has not
   yet counted. *)
Open(b, j) == b.requests[j] > 0 /\ b.outcome[j] = "none"

(* C1: within one batch the DELETE requests are strictly sequential and in
   the order of the selection: every position before the current one has
   its final outcome, no position after it has been sent a request, and at
   most one position has a request that is not yet counted. *)
C1_Sequential ==
    \A k \in BatchIndex :
        LET b == batches[k] IN
        /\ \A j \in Positions(b) :
              /\ j < b.i => b.outcome[j] # "none"
              /\ j >= b.i => b.outcome[j] = "none"
              /\ j > b.i => b.requests[j] = 0
        /\ Cardinality({ j \in Positions(b) : Open(b, j) }) <= 1

(* A two-id batch waits on the DELETE of its second id after the first id
   went through a retry. *)
C1_Witness ==
    \E k \in BatchIndex :
        /\ Len(batches[k].groupsToDelete) = 2
        /\ batches[k].pc = "await1"
        /\ batches[k].i = 2
        /\ batches[k].requests = <<2, 1>>

(* C2: Global.allGroups is never replaced while isDeletingInProgress is
   true. *)
C2_CacheNotReplacedWhileBusy ==
    [][isDeletingInProgress => allGroups' = allGroups]_vars

(* C3: the busy flag covers the whole batch: whenever an invocation is
   suspended (request in flight, retry delay) or has ids without a final
   outcome, isDeletingInProgress is true. *)
C3_FlagCoversBatch ==
    \A k \in BatchIndex :
        LET b == batches[k] IN
        (Running(b) \/ \E j \in Positions(b) : b.outcome[j] = "none")
            => isDeletingInProgress

(* A batch is waiting out the retry delay of its second id. *)
C3_Witness ==
    \E k \in BatchIndex :
        /\ batches[k].pc = "delay"
        /\ batches[k].i = 2
        /\ isDeletingInProgress

(* C4: the flag is never left set forever: once no invocation of
   deleteGroupsSequentially is suspended any more (nothing is left that
   would clear the flag), isDeletingInProgress is false. *)
C4_FlagClearedOnEveryExit ==
    (\A k \in BatchIndex : ~Running(batches[k])) => ~isDeletingInProgress

(* C5: ladeGruppen called while isDeletingInProgress is true issues no GET
   and leaves the cache, the dropdown contents and the year facets
   unchanged. *)
C5_LadeGruppenNoOpWhileBusy ==
    [][(isDeletingInProgress /\ ev' = "ladeGruppenBusy")
         => /\ pendingGets' = pendingGets
            /\ UNCHANGED <<allGroups, loeschenChoices, allYears, yearOptions>>
      ]_vars

(* ladeGruppen has just been called during a batch, with a cache and year
   facets that a change would show. *)
C5_Witness ==
    /\ ev = "ladeGruppenBusy"
    /\ isDeletingInProgress
    /\ allGroups # <<>>
    /\ yearOptions # <<>>

(* C6: each id receives at most two DELETE requests, and when the batch has
   ended successCount + errorCount = N with every id counted once. *)
C6_CountsAddUp ==
    \A k \in BatchIndex :
        LET b == batches[k] IN
        /\ \A j \in Positions(b) : b.requests[j] <= 2
        /\ ~Running(b) =>
              /\ b.successCount + b.errorCount = Len(b.groupsToDelete)
              /\ \A j \in Positions(b) : b.outcome[j] # "none"

(* C7 as stated: every position whose first DELETE was rejected, and that the
   loop has left, was sent exactly one retry and is counted by the retry's
   result. *)
C7_EveryRejectionRetried ==
    \A k \in BatchIndex :
        LET b == batches[k] IN
        \A j \in Positions(b) :
            (b.first[j] \in Rejections /\ j < b.i)
                => /\ b.requests[j] = 2
                   /\ b.outcome[j] =
                         (IF b.second[j] = "ok" THEN "succeeded" ELSE "failed")

(* C7 amended: a position whose first DELETE was rejected with an error
   whose message contains "Failed to fetch" gets its one retry only after the
   delay, never a third request, and once the loop has left it it was sent
   exactly two requests and is counted succeeded if the retry's response
   was ok and failed otherwise (non-ok response or any rejection). *)
C7_FailedToFetchRetriedOnce ==
    \A k \in BatchIndex :
        LET b == batches[k] IN
        \A j \in Positions(b) :
            b.first[j] = "rejFailedToFetch" =>
                /\ b.requests[j] <= 2
                /\ (j = b.i /\ b.pc = "delay") => b.requests[j] = 1
                /\ (j = b.i /\ b.pc = "await2") => b.requests[j] = 2
                /\ j = b.i => b.pc \in {"delay", "await2"}
                /\ j < b.i =>
                      /\ b.requests[j] = 2
                      /\ b.second[j] # "none"
                      /\ b.outcome[j] =
                            (IF b.second[j] = "ok" THEN "succeeded"
                             ELSE "failed")

(* Both ends of a retry have happened in one batch: a retry answered ok and
   counted as succeeded, and a retry answered with a non-ok status and
   counted as failed. *)
C7_Witness ==
    \E k \in BatchIndex :
        LET b == batches[k] IN
        /\ b.pc = "done"
        /\ b.first = <<"rejFailedToFetch", "rejFailedToFetch">>
        /\ b.second = <<"ok", "notOk">>
        /\ b.outcome = <<"succeeded", "failed">>

(* C8: a batch that ran to its end has scheduled a refresh exactly if at
   least one deletion succeeded, with or without the widget instance. *)
C8_RefreshIffSuccess ==
    \A k \in BatchIndex :
        batches[k].pc = "done"
            => (batches[k].refreshScheduled <=> batches[k].successCount > 0)

(* C9: no failure of a DELETE request escapes the batch: the promise of
   deleteGroupsSequentially never rejects. *)
C9_NoFailureEscapes ==
    \A k \in BatchIndex : batches[k].pc # "thrown"

(* C10: at most one invocation of deleteGroupsSequentially is suspended at
   any time, and loeschen or the Enter key while isDeletingInProgress is
   true changes neither the flag nor the selection nor any batch (no DELETE
   is sent, no counter moves). *)
C10_SingleBatch ==
    [][/\ Len(SelectSeq(batches', Running)) <= 1
       /\ (isDeletingInProgress /\ ev' \in {"loeschenBusy", "enterBusy"})
            => UNCHANGED <<isDeletingInProgress, selection, batches,
                           refreshTimers>>
      ]_vars

(* loeschen has just been called, with a non-empty selection, while a batch
   had a DELETE in flight. *)
C10_Witness ==
    /\ ev = "loeschenBusy"
    /\ selection # <<>>
    /\ \E k \in BatchIndex : batches[k].pc \in {"await1", "await2"}

(* C27: a GET /groups result processed while isDeletingInProgress is true
   leaves the choices of the delete dropdown and the year facets as they
   were, whenever that GET was issued. *)
C27_BusyResponseSparesDropdown ==
    [][(isDeletingInProgress /\ pendingGets' < pendingGets) =>
         /\ loeschenChoices' = loeschenChoices
         /\ allYears' = allYears
         /\ yearOptions' = yearOptions]_vars

(* During a batch the cache holds a newer list than the dropdown and the
   year facets. *)
C27_Witness ==
    /\ isDeletingInProgress
    /\ \E k \in BatchIndex : Running(batches[k])
    /\ groupChoicesLoeschenInstance
    /\ loeschenChoices # <<>>
    /\ allGroups # <<>>
    /\ allGroups # loeschenChoices
    /\ allYears # getAllYears(allGroups)
    /\ pendingGets = 0

(* C28: on the page with the dropdown widget, in every run in which no
   failure escapes a batch, whenever a batch has ended with at least one
   successful deletion, a GET /groups is issued at some later step. *)
C28_RefreshFollowsSuccessfulBatch ==
    \/ <>(\E k \in BatchIndex : batches[k].pc = "thrown")
    \/ [](ev = "batchEndSuccess" /\ groupChoicesLoeschenInstance
            => <>(ev = "ladeGruppen"))

----------------------------------------------------------------------------
(* The message page (Nachichten.html) *)

(* After the DOMContentLoaded handlers: both regions hidden, the type widget
   created by stud(), the group widget not yet; apiAnfragen.js has called
   ladeGruppen, and so has script.js (line 467). *)
InitMsg ==
    /\ CacheEmpty
    /\ NoHistory
    /\ NoDeletePage
    /\ NoAddPage
    /\ groupChoicesLoeschenInstance = FALSE
    /\ variant \in {"push", "file"}
    /\ message = ""
    /\ selectedYears = {}
    /\ selectedTypes = {}
    /\ sendToAll = FALSE
    /\ studVisible = FALSE
    /\ groupVisible = FALSE
    /\ groupChoicesInstance = FALSE
    /\ groupSelection = <<>>
    /\ sent = NoMessage
    /\ resetTimers = 0
    /\ pendingGets = (IF variant = "push" THEN 2 ELSE 1)
    /\ ev = "load"

(* The user edits the message. *)
EditMessage ==
    \E t \in Texts :
        /\ t # message
        /\ message' = t
        /\ ev' = "editMessage"
        /\ alertShown' = ""
        /\ sent' = NoMessage
        /\ UNCHANGED <<cacheVars, deleteVars, addVars, pendingGets, lastData, histVars,
                       variant, selectedYears, selectedTypes, sendToAll,
                       studVisible, groupVisible, groupChoicesInstance,
                       groupSelection, resetTimers>>

(* The user changes the selection of the year filter, which offers the
   options of #year-select; the change event runs checkAuswahlYear. *)
YearChange ==
    \E years \in SUBSET { yearOptions[i] : i \in 1 .. Len(yearOptions) } :
        /\ years # selectedYears
        /\ selectedYears' = years
        /\ checkAuswahlYear(years)
        /\ ev' = "yearChange"
        /\ alertShown' = ""
        /\ sent' = NoMessage
        /\ UNCHANGED <<cacheVars, deleteVars, addVars, pendingGets, lastData, histVars,
                       variant, message, selectedTypes, sendToAll,
                       groupChoicesInstance, groupSelection, resetTimers>>

(* The user changes the selection of the type filter, which can be operated
   while it is shown; the change event runs handleStudChange. *)
StudChange ==
    \E types \in SUBSET StudTypes :
        /\ studVisible
        /\ types # selectedTypes
        /\ selectedTypes' = types
        /\ handleStudChange(types)
        /\ ev' = "studChange"
        /\ alertShown' = ""
        /\ sent' = NoMessage
        /\ UNCHANGED <<allGroups, loeschenChoices, allYears, yearOptions,
                       deleteVars, addVars, pendingGets, lastData, histVars, variant,
                       message, selectedYears, sendToAll, studVisible,
                       resetTimers>>

(* The user changes the selection of the group filter while it is shown; no
   handler listens. *)
GroupSelect ==
    \E s \in Selections({ groupChoices[i].value : i \in 1 .. Len(groupChoices) }) :
        /\ groupVisible
        /\ groupChoicesInstance
        /\ s # groupSelection
        /\ groupSelection' = s
        /\ ev' = "groupSelect"
        /\ alertShown' = ""
        /\ sent' = NoMessage
        /\ UNCHANGED <<cacheVars, deleteVars, addVars, pendingGets, lastData, histVars,
                       variant, message, selectedYears, selectedTypes,
                       sendToAll, studVisible, groupVisible,
                       groupChoicesInstance, resetTimers>>

(* The user toggles #sendToAll. *)
ToggleSendToAll ==
    /\ sendToAll' = ~sendToAll
    /\ sendToAllChange(~sendToAll)
    /\ ev' = "sendToAllChange"
    /\ alertShown' = ""
    /\ sent' = NoMessage
    /\ UNCHANGED <<cacheVars, deleteVars, addVars, pendingGets, lastData, histVars,
                   variant, message, selectedYears, selectedTypes,
                   groupChoicesInstance, resetTimers>>

(* The send button's onclick, or Enter on Nachichten.html. *)
CallSenden ==
    /\ resetTimers < MaxResets
    /\ senden
    /\ ev' = "senden"
    /\ UNCHANGED <<cacheVars, deleteVars, addVars, pendingGets, lastData, histVars,
                   variant, message, selectedYears, selectedTypes, sendToAll,
                   studVisible, groupVisible, groupChoicesInstance,
                   groupSelection>>

(* 500 ms after a submission. *)
ResetTimerFires ==
    /\ resetTimers > 0
    /\ pendingGets < MaxGets
    /\ resetTimers' = resetTimers - 1
    /\ buildJsonTimeout
    /\ ev' = "resetTimer"
    /\ alertShown' = ""
    /\ sent' = NoMessage
    /\ UNCHANGED <<cacheVars, deleteVars, addVars, lastData, histVars, variant,
                   selectedYears, selectedTypes, studVisible, groupVisible,
                   groupChoicesInstance>>

(* A GET /groups exchange ends. *)
GetResponseMsg ==
    \E data \in GetResponses :
        /\ GetResponseWith(data)
        /\ ev' = "getResponse"
        /\ alertShown' = ""
        /\ sent' = NoMessage
        /\ UNCHANGED <<lastData, histVars>>

NextMsg ==
    \/ EditMessage
    \/ YearChange
    \/ StudChange
    \/ GroupSelect
    \/ ToggleSendToAll
    \/ CallSenden
    \/ ResetTimerFires
    \/ GetResponseMsg

SpecMsg == InitMsg /\ [][NextMsg]_vars

(* The send button or the Enter key again, after a submission and before
   its reset timer has fired. *)
SendenDuringResetDelay ==
    /\ resetTimers > 0
    /\ resetTimers <= MaxResets
    /\ senden
    /\ ev' = "senden"
    /\ UNCHANGED <<cacheVars, deleteVars, addVars, pendingGets, lastData, histVars,
                   variant, message, selectedYears, selectedTypes, sendToAll,
                   studVisible, groupVisible, groupChoicesInstance,
                   groupSelection>>

NextResend ==
    \/ NextMsg
    \/ SendenDuringResetDelay

(* The message page with repeated submit events. *)
SpecResend == InitMsg /\ [][NextResend]_vars

----------------------------------------------------------------------------
(* The filter of script.js as a function of cache and filter state *)

(* The message page with a cache loaded and a filter state selected. *)
InitFilter ==
    /\ NoDeletePage
    /\ NoAddPage
    /\ NoHistory
    /\ groupChoicesLoeschenInstance = FALSE
    /\ allGroups \in { ToChoices(list) : list \in FilterLists }
    /\ loeschenChoices = <<>>
    /\ groupChoices = <<>>
    /\ allYears = getAllYears(allGroups)
    /\ yearOptions = jahrgangAktualisieren(allYears)
    /\ alertShown = ""
    /\ lastData = [kind |-> "none", groups |-> <<>>, before |-> <<>>]
    /\ variant = "push"
    /\ message = ""
    /\ selectedYears \in SUBSET { yearOptions[i] : i \in 1 .. Len(yearOptions) }
    /\ selectedTypes \in SUBSET StudTypes
    /\ sendToAll = FALSE
    /\ studVisible = (selectedYears # {})
    /\ groupVisible = FALSE
    /\ groupChoicesInstance = FALSE
    /\ groupSelection = <<>>
    /\ sent = NoMessage
    /\ resetTimers = 0
    /\ pendingGets = 0
    /\ ev = "load"

(* groupSelectAnzeigen is called with other years and types than the
   selected ones, as handleStudChange calls it (script.js:358). *)
FilterOther ==
    \E years \in SUBSET { yearOptions[i] : i \in 1 .. Len(yearOptions) },
       types \in SUBSET StudTypes :
        /\ <<years, types>> # <<selectedYears, selectedTypes>>
        /\ groupSelectAnzeigen(years, types)
        /\ ev' = "filterOther"
        /\ UNCHANGED <<allGroups, loeschenChoices, allYears, yearOptions,
                       deleteVars, addVars, pendingGets, alertShown, lastData,
                       histVars, variant, message, selectedYears,
                       selectedTypes, sendToAll, studVisible, sent,
                       resetTimers>>

(* groupSelectAnzeigen is called with the selected years and types; the
   history keeps the filtered list and what the widget held before. *)
FilterCurrent ==
    /\ Len(filterRuns) < MaxRuns
    /\ groupSelectAnzeigen(selectedYears, selectedTypes)
    /\ filterRuns' =
          Append(filterRuns,
                 [result |-> FilterGroups(allGroups, selectedYears, selectedTypes),
                  before |-> groupChoices])
    /\ ev' = "filterCurrent"
    /\ UNCHANGED <<allGroups, loeschenChoices, allYears, yearOptions,
                   deleteVars, addVars, pendingGets, alertShown, lastData,
                   refreshes, variant, message, selectedYears, selectedTypes,
                   sendToAll, studVisible, sent, resetTimers>>

NextFilter ==
    \/ FilterOther
    \/ FilterCurrent

SpecFilter == InitFilter /\ [][NextFilter]_vars

----------------------------------------------------------------------------
(* Properties of the page that creates groups *)

(* C11: when a GET /groups result with success true and a list of groups has
   been processed, the cache is exactly that list mapped to {value: id,
   label: name, art} in the order of the response, whatever it held before;
   when the result had no success, no list, or the request failed, the cache
   is what it was. *)
C11_CacheIsTheResponse ==
    [][ev' = "getResponse" =>
         IF lastData'.kind = "ok"
         THEN /\ Len(allGroups') = Len(lastData'.groups)
              /\ \A i \in 1 .. Len(allGroups') :
                    /\ allGroups'[i].value = lastData'.groups[i].id
                    /\ allGroups'[i].label = lastData'.groups[i].name
                    /\ allGroups'[i].art = lastData'.groups[i].art
         ELSE allGroups' = allGroups]_vars

(* A second list has replaced a first one. *)
C11_Witness ==
    /\ ev = "getResponse"
    /\ lastData.kind = "ok"
    /\ lastData.groups = <<G2, G3>>
    /\ Len(lastData.before) = 2
    /\ lastData.before[1].value = G1.id
    /\ \A i \in 1 .. Len(allGroups) : allGroups[i].value # G1.id

(* C12: hinzufuegen called with an empty name sends no POST, requests no
   refresh, leaves the cache alone and shows the validation alert. *)
C12_EmptyNameRejected ==
    [][(ev' = "hinzufuegen" /\ inputName = <<>>) =>
         /\ posts' = posts
         /\ pendingGets' = pendingGets
         /\ allGroups' = allGroups
         /\ alertShown' = AlertEmptyName]_vars

C12_Witness ==
    /\ ev = "hinzufuegen"
    /\ alertShown = AlertEmptyName
    /\ posts = <<>>
    /\ allGroups # <<>>

(* C13: a refresh is requested exactly when the backend reports success:
   the continuation of a POST answered with success true calls ladeGruppen
   once and clears the input; the one of a POST answered with success false
   or not answered shows an alert, requests no refresh and leaves cache and
   input alone; nothing else on the page requests a refresh. *)
C13_RefreshIffBackendSuccess ==
    [][/\ ev' = "postSuccess" =>
            /\ pendingGets' = pendingGets + 1
            /\ inputName' = <<>>
       /\ ev' \in {"postAppError", "postReject"} =>
            /\ alertShown' \in {AlertAddFailed, AlertAddNetwork}
            /\ pendingGets' = pendingGets
            /\ allGroups' = allGroups
            /\ inputName' = inputName
       /\ pendingGets' > pendingGets => ev' = "postSuccess"]_vars

(* A POST failed with a name still in the input. *)
C13_Witness ==
    /\ ev = "postReject"
    /\ alertShown = AlertAddNetwork
    /\ inputName # <<>>
    /\ pendingGets = 0

----------------------------------------------------------------------------
(* Properties of the message page *)

(* The type a group's art field stands for. *)
TypeOfArt(art) == IF art = 1 THEN "studenten" ELSE "auszubildende"

(* The groups whose year is among years and whose type is among types, in
   their order; a facet with no selection matches every group. *)
MatchingGroups(groups, years, types) ==
    SelectSeq(groups,
              LAMBDA g : /\ years = {} \/ extractYearFromGroupName(g.label) \in years
                         /\ types = {} \/ TypeOfArt(g.art) \in types)

(* C14: senden called with an empty message, or with no target group
   resolved, shows the validation alert, hands nothing to the sink, starts no
   reset timer, requests no refresh, and leaves message, filter state and
   group selection as they were. *)
C14_InvalidSubmissionRejected ==
    [][(ev' = "senden" /\ (message = "" \/ Len(selectedGroupNames) = 0)) =>
         /\ alertShown' = AlertMissing
         /\ sent' = NoMessage
         /\ resetTimers' = resetTimers
         /\ pendingGets' = pendingGets
         /\ message' = message
         /\ selectedYears' = selectedYears
         /\ selectedTypes' = selectedTypes
         /\ sendToAll' = sendToAll
         /\ groupSelection' = groupSelection]_vars

(* A message with text was rejected for want of targets. *)
C14_Witness ==
    /\ ev = "senden"
    /\ alertShown = AlertMissing
    /\ message # ""
    /\ selectedYears # {}
    /\ resetTimers = 0

(* C15: when the reset timer of a submission has run, the message is empty,
   sendToAll is false, no group is selected, and no year and no type is
   selected. *)
C15_ResetClearsFilterState ==
    [][ev' = "resetTimer" =>
         /\ message' = ""
         /\ sendToAll' = FALSE
         /\ groupSelection' = <<>>
         /\ selectedYears' = {}
         /\ selectedTypes' = {}]_vars

(* C16: in the push variant a submission with text made while sendToAll is
   checked goes to exactly the cached groups that match the selected years
   and types, in cache order (to all of them when nothing is selected),
   whatever the group selection is; it is rejected when no group matches. *)
C16_SendToAllTargets ==
    [][(ev' = "senden" /\ variant = "push" /\ sendToAll /\ message # "") =>
         LET targets == MatchingGroups(allGroups, selectedYears, selectedTypes) IN
         IF targets = <<>>
         THEN sent' = NoMessage
         ELSE /\ sent'.message = message
              /\ Len(sent'.groups) = Len(targets)
              /\ \A i \in 1 .. Len(targets) :
                    sent'.groups[i] = targets[i].label]_vars

(* A message went to the one group of two that matches the facets, while
   the group selection named something else. *)
C16_Witness ==
    /\ ev = "senden"
    /\ variant = "push"
    /\ sendToAll
    /\ Len(allGroups) = 2
    /\ Len(sent.groups) = 1
    /\ selectedTypes # {}
    /\ ResolveNames(groupSelection) # sent.groups

(* C17: while sendToAll is checked, the type filter and the group filter
   are hidden. *)
C17_SendToAllHidesRegions ==
    sendToAll => ~studVisible /\ ~groupVisible

(* C18: while sendToAll is not checked, the type filter is shown exactly
   when a year is selected, and the group filter exactly when a year and a
   type are selected. *)
C18_VisibilityFromFilterState ==
    ~sendToAll =>
        /\ studVisible <=> selectedYears # {}
        /\ groupVisible <=> (selectedYears # {} /\ selectedTypes # {})

(* C19: after a year-change event the type filter is shown if a year is
   selected; if none is selected the type filter and the group filter are
   hidden. *)
C19_YearChangeSetsRegions ==
    [][ev' = "yearChange" =>
         IF selectedYears' # {}
         THEN studVisible'
         ELSE ~studVisible' /\ ~groupVisible']_vars

(* The last year was deselected while the group filter was shown. *)
C19_Witness ==
    /\ ev = "yearChange"
    /\ selectedYears = {}
    /\ selectedTypes # {}
    /\ groupChoices # <<>>
    /\ ~studVisible
    /\ ~groupVisible

(* C20: after a type-change event with a type selected (years being
   selected) the group filter is shown and offers exactly the cached groups
   whose year is among the selected years and whose type is among the
   selected types; with no type selected the group filter is hidden. *)
C20_GroupFilterOffersBothFacets ==
    [][ev' = "studChange" =>
         IF selectedTypes' # {}
         THEN selectedYears' # {} =>
                /\ groupVisible'
                /\ groupChoices' =
                     MatchingGroups(allGroups', selectedYears', selectedTypes')
         ELSE ~groupVisible']_vars

(* C21: while the group filter is shown, the groups it offers are the cached
   groups that match the selected years and types, whatever changed last:
   the years, the types or the cache. *)
C21_OfferedGroupsFollowFilterState ==
    groupVisible =>
        groupChoices = MatchingGroups(allGroups, selectedYears, selectedTypes)

(* C26: every target of a message handed to the sink is the name of a group
   that is in the cache when senden runs. *)
C26_TargetsAreCachedNames ==
    [][(ev' = "senden" /\ sent' # NoMessage) =>
         \A i \in 1 .. Len(sent'.groups) :
            \E k \in 1 .. Len(allGroups) :
               allGroups[k].label = sent'.groups[i]]_vars

(* C30: in the file variant a submission with text made while sendToAll is
   checked and the cache is not empty goes to all cached groups, in cache
   order. *)
C30_FileSendToAllTargetsAll ==
    [][(ev' = "senden" /\ variant = "file" /\ sendToAll /\ message # ""
          /\ allGroups # <<>>) =>
         /\ sent'.message = message
         /\ sent'.groups = Labels(allGroups)]_vars

----------------------------------------------------------------------------
(* Properties of the filter *)

(* C22: all runs of the filter on the same groups, years and types give the
   same groups in the same order, whatever the filter computed in between. *)
C22_FilterDeterministic ==
    \A i, j \in 1 .. Len(filterRuns) :
        filterRuns[i].result = filterRuns[j].result

(* Two runs that keep some groups and drop others, the second one made
   after the widget had been given another list. *)
C22_Witness ==
    /\ Len(filterRuns) = 2
    /\ filterRuns[1].result # <<>>
    /\ filterRuns[1].result # allGroups
    /\ filterRuns[2].before # <<>>
    /\ filterRuns[2].before # filterRuns[1].result

(* C23: a cached group without art field whose name has S as second letter
   and whose year is not filtered out is kept by the filter when
   auszubildende is the selected type, and dropped when studenten is. *)
C23_TypeFallsBackToSecondLetter ==
    \A i \in 1 .. Len(filterRuns) :
        \A k \in 1 .. Len(allGroups) :
            LET g == allGroups[k]
                kept == \E m \in 1 .. Len(filterRuns[i].result) :
                           filterRuns[i].result[m] = g
            IN  (/\ g.art = 0
                 /\ Len(g.label) >= 2
                 /\ g.label[2] = "S"
                 /\ selectedYears = {}
                      \/ extractYearFromGroupName(g.label) \in selectedYears) =>
                    /\ selectedTypes = {"auszubildende"} => kept
                    /\ selectedTypes = {"studenten"} => ~kept

----------------------------------------------------------------------------
(* Properties of the type derivation on create *)

(* The type that a set of second characters stands for. *)
SecondLetterArt(name, letters) ==
    IF Len(name) >= 2 /\ name[2] \in letters THEN 2 ELSE 1

(* C24 as stated: extractArtFromGroupName gives 2 exactly for the names of
   two or more characters with S or s as second character, 1 otherwise, and
   every POST that hinzufuegen issues carries that value for its name. *)
C24_ArtIffSecondLetterS ==
    /\ extractArtFromGroupName(inputName) = SecondLetterArt(inputName, {"S", "s"})
    /\ \A k \in 1 .. Len(posts) :
          posts[k].art = SecondLetterArt(posts[k].name, {"S", "s"})

(* C24, amended: extractArtFromGroupName gives 2 exactly for the names of
   two or more characters whose second character is S, s or the long s
   (U+017F), 1 otherwise, and every POST that hinzufuegen issues carries
   that value for its name. *)
C24_ArtIffSecondLetterUppercasesToS ==
    /\ extractArtFromGroupName(inputName) =
          SecondLetterArt(inputName, {"S", "s", LongS})
    /\ \A k \in 1 .. Len(posts) :
          posts[k].art = SecondLetterArt(posts[k].name, {"S", "s", LongS})

(* A POST for a name with lowercase s as second character is in flight and
   carries art 2. *)
C24_Witness ==
    /\ ev = "hinzufuegen"
    /\ \E k \in 1 .. Len(posts) :
          /\ Len(posts[k].name) >= 2
          /\ posts[k].name[2] = "s"
          /\ posts[k].art = 2

----------------------------------------------------------------------------
(* Properties of the year extraction *)

(* name is k uppercase letters, two digits, a slash and one or more digits. *)
YearFormWith(name, k) ==
    /\ k >= 1
    /\ Len(name) >= k + 4
    /\ \A j \in 1 .. k : name[j] \in UpperCase
    /\ name[k + 1] \in Digits
    /\ name[k + 2] \in Digits
    /\ name[k + 3] = "/"
    /\ \A j \in k + 4 .. Len(name) : name[j] \in Digits

YearForm(name) == \E k \in 1 .. Len(name) : YearFormWith(name, k)

(* Some part of the name has the form. *)
ContainsYearForm(name) ==
    \E a \in 1 .. Len(name), b \in 1 .. Len(name) :
        a <= b /\ YearForm(SubSeq(name, a, b))

(* C25: for a cached group whose name is uppercase letters, two digits, a
   slash and digits, extractYearFromGroupName gives the two digits, and they
   are the years of the cache; for a name no part of which has that form it
   gives null, and the cache has no year. *)
C25_YearFromName ==
    \A i \in 1 .. Len(allGroups) :
        LET name == allGroups[i].label IN
        /\ \A k \in 1 .. Len(name) :
              YearFormWith(name, k) =>
                /\ extractYearFromGroupName(name) = <<name[k + 1], name[k + 2]>>
                /\ Len(allGroups) = 1 => allYears = << <<name[k + 1], name[k + 2]>> >>
        /\ ~ContainsYearForm(name) =>
              /\ extractYearFromGroupName(name) = <<>>
              /\ Len(allGroups) = 1 => allYears = <<>>

(* The cache holds the group D24/2, and 24 is its year. *)
C25_Witness ==
    /\ ev = "getResponse"
    /\ Len(allGroups) = 1
    /\ allGroups[1].label = <<"D","2","4","/","2">>
    /\ allYears = << <<"2","4">> >>

----------------------------------------------------------------------------
(* Properties of overlapping refreshes *)

(* C29: once every GET /groups has been answered and the one issued last was
   answered with groups, the cache holds the groups of that answer. *)
C29_LatestIssuedRefreshWins ==
    (/\ pendingGets = 0
     /\ refreshes.latest = "done"
     /\ refreshes.data.kind = "ok") =>
        allGroups = ToChoices(refreshes.data.groups)

----------------------------------------------------------------------------
(* Further properties of the delete page *)

(* C31: a position has been sent a second DELETE only if its first attempt
   rejected with "Failed to fetch"; a position whose first attempt was
   answered not ok or rejected with any other error is counted as failed
   after that one request; a position that the loop has passed and whose id
   does not parse is counted as failed without any request. *)
C31_RetryOnlyAfterFailedToFetch ==
    \A k \in BatchIndex :
        LET b == batches[k] IN
        \A j \in Positions(b) :
            /\ b.requests[j] > 1 => b.first[j] = "rejFailedToFetch"
            /\ b.first[j] \in {"notOk", "rejOtherMessage", "rejNoMessage"}
                  => b.outcome[j] = "failed" /\ b.requests[j] = 1
            /\ (parseInt(b.groupsToDelete[j]).isNaN /\ j < b.i)
                  => b.outcome[j] = "failed" /\ b.requests[j] = 0

----------------------------------------------------------------------------
(* Properties of the year facets *)

(* A year string as a number. *)
YearNumber(year) == 10 * DigitVal(year[1]) + DigitVal(year[2])

(* The years that the names of the cached groups yield. *)
CachedYears ==
    { extractYearFromGroupName(allGroups[i].label) : i \in 1 .. Len(allGroups) }
        \ { <<>> }

(* C33: with no delete in progress, the options of the year filter are the
   years that the cached group names yield, each once and in ascending
   order. *)
C33_YearOptionsAreCachedYears ==
    ~isDeletingInProgress =>
        /\ { yearOptions[i] : i \in 1 .. Len(yearOptions) } = CachedYears
        /\ \A i, j \in 1 .. Len(yearOptions) :
              i < j => YearNumber(yearOptions[i]) < YearNumber(yearOptions[j])

(* Seven cached groups with six years, not in ascending order, the last
   year mentioned twice. *)
C33_Witness ==
    /\ ev = "getResponse"
    /\ Len(allGroups) = 7
    /\ Cardinality(CachedYears) = 6
    /\ Len(yearOptions) = 6
    /\ extractYearFromGroupName(allGroups[6].label)
          = extractYearFromGroupName(allGroups[7].label)
    /\ YearNumber(extractYearFromGroupName(allGroups[1].label))
          > YearNumber(extractYearFromGroupName(allGroups[2].label))

(* C34: the list of years that getAllYears builds holds no year twice. *)
C34_AllYearsWithoutDuplicates ==
    \A i, j \in 1 .. Len(allYears) : i # j => allYears[i] # allYears[j]

----------------------------------------------------------------------------
(* Properties of repeated submissions *)

(* C32: a submit event that directly follows a submission, before the reset
   timer has fired, does not emit the text and the targets of that
   submission again. *)
C32_NoSecondEmission ==
    [][(sent # NoMessage /\ resetTimers > 0 /\ ev' = "senden")
          => sent' # sent]_vars

====
